---- MODULE Spec2Model ----
(***************************************************************************)
(* Monte Carlo Tree Search for Tic Tac Toe: a model of src/mcts_lists.py   *)
(* and src/mcts_mutable.py.                                                *)
(*                                                                         *)
(* Encoding.  A Python int used as a bit mask is the set of its set bit    *)
(* positions (0b000000101 is {2, 0}), so that & is intersection, | is      *)
(* union and ^ is the symmetric difference, for masks of any width.  A     *)
(* player (a Python bool, also used as a list index) is 0 or 1, and None   *)
(* is -1 where a player is expected and {-1} where a move is expected.     *)
(* A count of visits is held in thousandths (VisitUnit), because calc_uct  *)
(* may replace 0 by 0.001.  A float is held in thousandths too, rounded    *)
(* down (FScale).                                                          *)
(***************************************************************************)
EXTENDS Integers, Sequences, FiniteSets, TLC

(***************************************************************************)
(* Bounds of the exploration.                                              *)
(***************************************************************************)
\* run() leaves its loop at the latest when the root has this many visits
MaxVisits == 5

(***************************************************************************)
(* Integer masks as sets of bit positions.                                 *)
(***************************************************************************)
\* the mask written as binary digits, most significant first
Mask(digits) == {Len(digits) - i : i \in {j \in 1..Len(digits) : digits[j] = 1}}

And(a, b) == a \cap b
Or(a, b) == a \cup b
Xor(a, b) == (a \ b) \cup (b \ a)

None == -1
NoneMove == {-1}
Not(player) == 1 - player

POSSIBLE_MOVES ==
    << Mask(<<1,0,0,0,0,0,0,0,0>>),
       Mask(<<0,1,0,0,0,0,0,0,0>>),
       Mask(<<0,0,1,0,0,0,0,0,0>>),
       Mask(<<0,0,0,1,0,0,0,0,0>>),
       Mask(<<0,0,0,0,1,0,0,0,0>>),
       Mask(<<0,0,0,0,0,1,0,0,0>>),
       Mask(<<0,0,0,0,0,0,1,0,0>>),
       Mask(<<0,0,0,0,0,0,0,1,0>>),
       Mask(<<0,0,0,0,0,0,0,0,1>>) >>

WIN_STATE ==
    << Mask(<<1,1,1,0,0,0,0,0,0>>),
       Mask(<<0,0,0,1,1,1,0,0,0>>),
       Mask(<<0,0,0,0,0,0,1,1,1>>),
       Mask(<<1,0,0,1,0,0,1,0,0>>),
       Mask(<<0,1,0,0,1,0,0,1,0>>),
       Mask(<<0,0,1,0,0,1,0,0,1>>),
       Mask(<<0,0,1,0,1,0,1,0,0>>),
       Mask(<<1,0,0,0,1,0,0,0,1>>) >>

\* the dictionary as its items, in the order of the source
WIN_STATE_MOVE_ITEMS ==
    << << Mask(<<1,0,0,0,0,0,0,0,0>>),
          << Mask(<<1,1,1,0,0,0,0,0,0>>), Mask(<<1,0,0,1,0,0,1,0,0>>), Mask(<<1,0,0,0,1,0,0,0,1>>) >> >>,
       << Mask(<<0,1,0,0,0,0,0,0,0>>),
          << Mask(<<1,1,1,0,0,0,0,0,0>>), Mask(<<0,1,0,0,1,0,0,1,0>>) >> >>,
       << Mask(<<0,0,1,0,0,0,0,0,0>>),
          << Mask(<<1,1,1,0,0,0,0,0,0>>), Mask(<<0,0,1,0,0,1,0,0,1>>), Mask(<<0,0,1,0,1,0,1,0,0>>) >> >>,
       << Mask(<<0,0,0,1,0,0,0,0,0>>),
          << Mask(<<0,0,0,1,1,1,0,0,0>>), Mask(<<1,0,0,1,0,0,1,0,0>>) >> >>,
       << Mask(<<0,0,0,0,1,0,0,0,0>>),
          << Mask(<<0,0,0,1,1,1,0,0,0>>), Mask(<<0,1,0,0,1,0,0,1,0>>), Mask(<<1,0,0,0,1,0,0,0,1>>),
             Mask(<<0,0,1,0,1,0,1,0,0>>) >> >>,
       << Mask(<<0,0,0,0,0,1,0,0,0>>),
          << Mask(<<0,0,0,1,1,1,0,0,0>>), Mask(<<0,0,1,0,0,1,0,0,1>>) >> >>,
       << Mask(<<0,0,0,0,0,0,1,0,0>>),
          << Mask(<<0,0,0,0,0,0,1,1,1>>), Mask(<<1,0,0,1,0,0,1,0,0>>), Mask(<<0,0,1,0,1,0,1,0,0>>) >> >>,
       << Mask(<<0,0,0,0,0,0,0,1,0>>),
          << Mask(<<0,0,0,0,0,0,1,1,1>>), Mask(<<0,1,0,0,1,0,0,1,0>>) >> >>,
       << Mask(<<0,0,0,0,0,0,0,0,1>>),
          << Mask(<<0,0,0,0,0,0,1,1,1>>), Mask(<<0,0,1,0,0,1,0,0,1>>), Mask(<<1,0,0,0,1,0,0,0,1>>) >> >> >>

WIN_STATE_MOVE_KEYS == {WIN_STATE_MOVE_ITEMS[i][1] : i \in 1..Len(WIN_STATE_MOVE_ITEMS)}

\* WIN_STATE_MOVE[key], for a key of the dictionary
WIN_STATE_MOVE(key) ==
    WIN_STATE_MOVE_ITEMS[CHOOSE i \in 1..Len(WIN_STATE_MOVE_ITEMS) :
                             WIN_STATE_MOVE_ITEMS[i][1] = key][2]

\* the string keys of CONVERT_MOVE, in the order of the source
CONVERT_MOVE_ITEMS ==
    << << "0 0", Mask(<<1,0,0,0,0,0,0,0,0>>) >>,
       << "1 0", Mask(<<0,1,0,0,0,0,0,0,0>>) >>,
       << "2 0", Mask(<<0,0,1,0,0,0,0,0,0>>) >>,
       << "0 1", Mask(<<0,0,0,1,0,0,0,0,0>>) >>,
       << "1 1", Mask(<<0,0,0,0,1,0,0,0,0>>) >>,
       << "2 1", Mask(<<0,0,0,0,0,1,0,0,0>>) >>,
       << "0 2", Mask(<<0,0,0,0,0,0,1,0,0>>) >>,
       << "1 2", Mask(<<0,0,0,0,0,0,0,1,0>>) >>,
       << "2 2", Mask(<<0,0,0,0,0,0,0,0,1>>) >>,
       << "-1 -1", NoneMove >> >>

NOTATIONS == {CONVERT_MOVE_ITEMS[i][1] : i \in 1..Len(CONVERT_MOVE_ITEMS)}

\* CONVERT_MOVE[key] for a string key
CONVERT_MOVE(key) ==
    CONVERT_MOVE_ITEMS[CHOOSE i \in 1..Len(CONVERT_MOVE_ITEMS) :
                           CONVERT_MOVE_ITEMS[i][1] = key][2]

\* CONVERT_MOVE[move] for an int key (the move a run returns)
CONVERT_MOVE_BACK(move) ==
    CONVERT_MOVE_ITEMS[CHOOSE i \in 1..Len(CONVERT_MOVE_ITEMS) :
                           CONVERT_MOVE_ITEMS[i][2] = move][1]

FULL_BOARD == Mask(<<1,1,1,1,1,1,1,1,1>>)

(***************************************************************************)
(* GameState: [player, board], board a pair indexed by 0 and 1.            *)
(***************************************************************************)
Board(b0, b1) == (0 :> b0) @@ (1 :> b1)

\* GameState() and GameState(state)
NewGameState == [player |-> 0, board |-> Board({}, {})]

get_player(gs) == gs.player

\* a mutation of _check_win_move, which looks at the first line of the cell
\* only
check_win_move_first(gs, bit_location) ==
    And(gs.board[gs.player], WIN_STATE_MOVE(bit_location)[1]) = WIN_STATE_MOVE(bit_location)[1]

\* lists: _check_win_move; mutable: _won.  Defined for a key of WIN_STATE_MOVE.
check_win_move(gs, bit_location) ==
    \E i \in 1..Len(WIN_STATE_MOVE(bit_location)) :
        And(gs.board[gs.player], WIN_STATE_MOVE(bit_location)[i])
            = WIN_STATE_MOVE(bit_location)[i]

\* a mutation of is_won, which looks at the player who moved last only
is_won_of_player(gs) ==
    \E i \in 1..Len(WIN_STATE) :
        And(gs.board[gs.player], WIN_STATE[i]) = WIN_STATE[i]

\* lists: GameState.is_won
is_won(gs) ==
    \E i \in 1..Len(WIN_STATE) :
        \/ And(gs.board[0], WIN_STATE[i]) = WIN_STATE[i]
        \/ And(gs.board[1], WIN_STATE[i]) = WIN_STATE[i]

get_available(gs) == Xor(Or(gs.board[0], gs.board[1]), FULL_BOARD)

\* a mutation of get_available_moves, which looks at one occupancy only
get_available_moves_of_first(gs) ==
    SelectSeq(POSSIBLE_MOVES, LAMBDA move : And(move, Xor(gs.board[0], FULL_BOARD)) = move)

get_available_moves(gs) ==
    SelectSeq(POSSIBLE_MOVES, LAMBDA move : And(move, get_available(gs)) = move)

is_terminated(gs) == is_won(gs) \/ get_available(gs) = {}

\* a mutation of GameState.move, which marks the cell for the player who
\* moved last
move_lists_of_last(gs, bit_location) ==
    [player |-> Not(gs.player),
     board  |-> IF gs.player = 1
                THEN Board(gs.board[Not(gs.player)], Or(gs.board[gs.player], bit_location))
                ELSE Board(Or(gs.board[gs.player], bit_location), gs.board[Not(gs.player)])]

\* lists: GameState.move returns the new state and leaves the receiver alone
move_lists(gs, bit_location) ==
    [player |-> Not(gs.player),
     board  |-> IF gs.player = 1
                THEN Board(Or(gs.board[Not(gs.player)], bit_location), gs.board[gs.player])
                ELSE Board(gs.board[gs.player], Or(gs.board[Not(gs.player)], bit_location))]

\* a mutation of GameSimulator.move, which marks the cell for both players
sim_move_both(gs, bit_location) ==
    [player |-> Not(gs.player),
     board  |-> [p \in {0, 1} |-> Or(gs.board[p], bit_location)]]

\* lists: GameSimulator.move applies the move in place
sim_move(gs, bit_location) ==
    [player |-> Not(gs.player),
     board  |-> [gs.board EXCEPT ![Not(gs.player)] = Or(gs.board[Not(gs.player)], bit_location)]]

\* mutable: the state GameState.move leaves in the receiver
move_mutable(gs, bit_location) ==
    [player |-> Not(gs.player),
     board  |-> [gs.board EXCEPT ![Not(gs.player)] = Or(gs.board[Not(gs.player)], bit_location)]]

\* mutable: what GameState.move returns, given the state it left (KeyError apart)
move_mutable_terminal(after, bit_location) ==
    check_win_move(after, bit_location) \/ get_available(after) = {}

(***************************************************************************)
(* Floats.  A float is held in thousandths, rounded down.  The natural     *)
(* logarithm is a table in millionths; the order these numbers give to     *)
(* two UCT values is the order of the Python floats for every pair of      *)
(* nodes with wins <= visits <= parent visits <= 6.                        *)
(***************************************************************************)
VisitUnit == 1000
FScale == 1000
\* 0.001, the value calc_uct puts in place of 0 visits
EPSILON == 1
\* exploration_constant=0.8 and EXPLORATION_CONST = .8, in thousandths
EXPLORATION_CONST == 800

\* math.log(k) in millionths, for k = 1..6
LN_MICRO == <<0, 693147, 1098612, 1386294, 1609438, 1791759>>

\* math.log(0.001) in millionths
LN_EPSILON == 0 - 6907755

\* math.log(x) in millionths for x = visits / VisitUnit > 0: the table, and
\* for k + 0.001 the first-order term 0.001 / k
log_micro(visits) ==
    IF visits < VisitUnit
    THEN LN_EPSILON
    ELSE LN_MICRO[visits \div VisitUnit]
         + ((visits % VisitUnit) * 1000) \div (visits \div VisitUnit)

RECURSIVE isqrt_iter(_, _)
isqrt_iter(n, x) ==
    LET y == (x + n \div x) \div 2
    IN  IF y >= x THEN x ELSE isqrt_iter(n, y)

\* the integer square root
isqrt(n) == IF n = 0 THEN 0 ELSE isqrt_iter(n, n)

\* math.sqrt(log / visits) in thousandths, for log >= 0 in millionths
sqrt_ratio(log, visits) ==
    IF visits >= VisitUnit
    THEN isqrt(1000 * (log \div visits) + ((log % visits) * 1000) \div visits)
    ELSE 10 * isqrt((log * 10) \div visits)

\* wins / visits in thousandths
win_rate(wins, visits) == (wins * VisitUnit * FScale) \div visits

(***************************************************************************)
(* Node.  The tree is an arena: nodes[id] is the node object id, parent    *)
(* and children hold ids, and NoNode is None.                              *)
(***************************************************************************)
NoNode == 0

\* a mutation of Node.__init__, which takes every cell for an untried move
Node_lists_every_move(gamestate, parent, played_move) ==
    [gamestate      |-> gamestate,
     parent         |-> parent,
     children       |-> <<>>,
     visits         |-> 0,
     wins           |-> 0,
     possible_moves |-> POSSIBLE_MOVES,
     is_leaf        |-> (get_available_moves(gamestate) = <<>> \/ is_won(gamestate)),
     played_move    |-> played_move,
     uct            |-> 0]

\* lists: Node.__init__
Node_lists(gamestate, parent, played_move) ==
    [gamestate      |-> gamestate,
     parent         |-> parent,
     children       |-> <<>>,
     visits         |-> 0,
     wins           |-> 0,
     possible_moves |-> get_available_moves(gamestate),
     is_leaf        |-> (get_available_moves(gamestate) = <<>> \/ is_won(gamestate)),
     played_move    |-> played_move,
     uct            |-> 0]

\* mutable: Node.__init__ for a given gamestate, which it moves in place
\* (is_leaf is leaf_node; the variant has no uct field: it stays 0)
Node_mutable(gamestate, parent, played_move) ==
    LET after == move_mutable(gamestate, played_move)
        leaf_node == move_mutable_terminal(after, played_move)
    IN  [gamestate      |-> after,
         parent         |-> parent,
         children       |-> <<>>,
         visits         |-> 0,
         wins           |-> 0,
         possible_moves |-> IF leaf_node THEN <<>> ELSE get_available_moves(after),
         is_leaf        |-> leaf_node,
         played_move    |-> played_move,
         uct            |-> 0]

\* Node() of both variants: the root of a new search
Node_root ==
    [gamestate      |-> NewGameState,
     parent         |-> NoNode,
     children       |-> <<>>,
     visits         |-> 0,
     wins           |-> 0,
     possible_moves |-> get_available_moves(NewGameState),
     is_leaf        |-> FALSE,
     played_move    |-> NoneMove,
     uct            |-> 0]

\* a mutation of backprop, which does not climb to the parent
backprop_here(ns, id, result) ==
    [ns EXCEPT ![id].visits = @ + VisitUnit,
               ![id].wins = IF result = get_player(ns[id].gamestate) THEN @ + 1 ELSE @]

\* a mutation of backprop, which counts two wins for the winner
RECURSIVE backprop_two_wins(_, _, _)
backprop_two_wins(ns, id, result) ==
    LET ns1 == [ns EXCEPT ![id].visits = @ + VisitUnit,
                          ![id].wins = IF result = get_player(ns[id].gamestate)
                                       THEN @ + 2 ELSE @]
    IN  IF ns[id].parent # NoNode THEN backprop_two_wins(ns1, ns[id].parent, result) ELSE ns1

\* a mutation of backprop, which counts the visit of the root twice
RECURSIVE backprop_root_twice(_, _, _)
backprop_root_twice(ns, id, result) ==
    LET ns1 == [ns EXCEPT ![id].visits = @ + (IF ns[id].parent = NoNode THEN 2 ELSE 1) * VisitUnit,
                          ![id].wins = IF result = get_player(ns[id].gamestate)
                                       THEN @ + 1 ELSE @]
    IN  IF ns[id].parent # NoNode THEN backprop_root_twice(ns1, ns[id].parent, result) ELSE ns1

\* a mutation of backprop, which does not count the visit of a node without
\* children
RECURSIVE backprop_of_parents(_, _, _)
backprop_of_parents(ns, id, result) ==
    LET ns1 == [ns EXCEPT ![id].visits = IF ns[id].children = <<>> THEN @ ELSE @ + VisitUnit,
                          ![id].wins = IF result = get_player(ns[id].gamestate) /\ @ < ns[id].visits
                                       THEN @ + 1 ELSE @]
    IN  IF ns[id].parent # NoNode THEN backprop_of_parents(ns1, ns[id].parent, result) ELSE ns1

\* Node.backprop
RECURSIVE backprop(_, _, _)
backprop(ns, id, result) ==
    LET n  == ns[id]
        n1 == [n EXCEPT !.visits = @ + VisitUnit,
                        !.wins = IF result = get_player(n.gamestate) THEN @ + 1 ELSE @]
        ns1 == [ns EXCEPT ![id] = n1]
    IN  IF n.parent # NoNode THEN backprop(ns1, n.parent, result) ELSE ns1

\* Node.calc_uct: [ns, err, value].  lists stores the value in uct, mutable
\* returns it; both overwrite 0 visits first.
calc_uct(ns, id, constant, stores) ==
    LET visits == IF ns[id].visits = 0 THEN EPSILON ELSE ns[id].visits
        ns1 == [ns EXCEPT ![id].visits = visits]
        pvisits == ns[ns[id].parent].visits
    IN  IF pvisits = 0 \/ log_micro(pvisits) < 0
        THEN [ns |-> ns1, err |-> "ValueError", value |-> 0]
        ELSE LET value == win_rate(ns[id].wins, visits)
                          + (constant * sqrt_ratio(log_micro(pvisits), visits)) \div FScale
             IN  [ns    |-> IF stores THEN [ns1 EXCEPT ![id].uct = value] ELSE ns1,
                  err   |-> "none",
                  value |-> value]

\* lists: the loop "for child_node in children: child_node.calc_uct(constant)"
RECURSIVE calc_uct_all(_, _, _, _)
calc_uct_all(ns, kids, i, constant) ==
    IF i > Len(kids)
    THEN [ns |-> ns, err |-> "none"]
    ELSE LET r == calc_uct(ns, kids[i], constant, TRUE)
         IN  IF r.err # "none"
             THEN [ns |-> r.ns, err |-> r.err]
             ELSE calc_uct_all(r.ns, kids, i + 1, constant)

\* lists: max(children) under __lt__, which compares the stored uct: the
\* first child of the greatest uct
RECURSIVE max_by_uct(_, _, _, _)
max_by_uct(ns, kids, i, best) ==
    IF i > Len(kids) THEN best
    ELSE max_by_uct(ns, kids, i + 1,
                    IF ns[best].uct < ns[kids[i]].uct THEN kids[i] ELSE best)

\* mutable: max(children) under __lt__, which calls calc_uct on both sides of
\* every comparison: [ns, err, best]
RECURSIVE max_by_calc_uct(_, _, _, _)
max_by_calc_uct(ns, kids, i, best) ==
    IF i > Len(kids)
    THEN [ns |-> ns, err |-> "none", best |-> best]
    ELSE LET a == calc_uct(ns, best, EXPLORATION_CONST, FALSE)
             b == calc_uct(a.ns, kids[i], EXPLORATION_CONST, FALSE)
         IN  IF a.err # "none" THEN [ns |-> a.ns, err |-> a.err, best |-> best]
             ELSE IF b.err # "none" THEN [ns |-> b.ns, err |-> b.err, best |-> best]
             ELSE max_by_calc_uct(b.ns, kids, i + 1,
                                  IF a.value < b.value THEN kids[i] ELSE best)

SeqToSet(seq) == {seq[i] : i \in 1..Len(seq)}

\* a mutation of list.pop(i), which takes the first element away
Pop_first(seq, i) == Tail(seq)

\* list.pop(i), for a 1-based index: the list left
Pop(seq, i) == [j \in 1..(Len(seq) - 1) |-> IF j < i THEN seq[j] ELSE seq[j + 1]]

(***************************************************************************)
(* Playouts.  A playout is random; the operators give the set of the       *)
(* states in which the loop can end, over all the choices of               *)
(* random.choice, computed one loop iteration at a time on the set of the  *)
(* states the loop can be in.                                              *)
(***************************************************************************)
\* lists: the states GameSimulator._simulate_move can leave, from state s
simulate_move(s) == {sim_move(s, m) : m \in SeqToSet(get_available_moves(s))}

\* lists: GameSimulator.play_out, the loop: the states it can end in when its
\* next iteration starts in one of the states of F
RECURSIVE play_out_finals(_)
play_out_finals(F) ==
    IF F = {} THEN {}
    ELSE LET next == UNION {simulate_move(s) : s \in F}
         IN  {s \in next : is_terminated(s)}
                 \cup play_out_finals({s \in next : ~is_terminated(s)})

\* a mutation of the result of play_out, which names the other player
play_out_result_other(s) == IF is_won(s) THEN Not(get_player(s)) ELSE None

\* lists: what play_out returns for the state its loop ended in
play_out_result(s) == IF is_won(s) THEN get_player(s) ELSE None

\* lists: the results Node.simulate can pass to backprop
simulate_lists(gamestate) ==
    IF ~is_terminated(gamestate)
    THEN {play_out_result(s) : s \in play_out_finals({gamestate})}
    ELSE IF is_won(gamestate) THEN {Not(get_player(gamestate))} ELSE {None}

\* mutable: Node.simulate, the loop: the states it can end in when its next
\* iteration starts in one of the states of F
RECURSIVE simulate_finals(_)
simulate_finals(F) ==
    IF F = {} THEN {}
    ELSE LET stuck == {s \in F : get_available_moves(s) = <<>>}
             next  == UNION {{<<move_mutable(s, m), m>> :
                                 m \in SeqToSet(get_available_moves(s))} : s \in F \ stuck}
         IN  stuck
               \cup {sm[1] : sm \in {x \in next : move_mutable_terminal(x[1], x[2])}}
               \cup simulate_finals({sm[1] : sm \in {x \in next : ~move_mutable_terminal(x[1], x[2])}})

\* mutable: the result Node.simulate and Node.expand take from a final state
available_result(s) == IF get_available(s) # {} THEN get_player(s) ELSE None

\* mutable: the results Node.simulate can pass to backprop
simulate_mutable(gamestate) ==
    {available_result(s) : s \in simulate_finals({gamestate})}

(***************************************************************************)
(* Node.select and Node.expand.                                            *)
(***************************************************************************)
\* Node.select down to the node it expands: [ns, id, err]
RECURSIVE select(_, _, _)
select(v, ns, id) ==
    IF ns[id].children # <<>> /\ ns[id].possible_moves = <<>>
    THEN IF v = "lists"
         THEN LET r == calc_uct_all(ns, ns[id].children, 1, EXPLORATION_CONST)
              IN  IF r.err # "none"
                  THEN [ns |-> r.ns, id |-> id, err |-> r.err]
                  ELSE select(v, r.ns,
                              max_by_uct(r.ns, ns[id].children, 2, ns[id].children[1]))
         ELSE LET r == max_by_calc_uct(ns, ns[id].children, 2, ns[id].children[1])
              IN  IF r.err # "none"
                  THEN [ns |-> r.ns, id |-> id, err |-> r.err]
                  ELSE select(v, r.ns, r.best)
    ELSE [ns |-> ns, id |-> id, err |-> "none"]

\* the child Node.expand appends for the untried move of index i
new_child(v, ns, id, i) ==
    IF v = "lists"
    THEN Node_lists(move_lists(ns[id].gamestate, ns[id].possible_moves[i]),
                    id, ns[id].possible_moves[i])
    ELSE Node_mutable(ns[id].gamestate, id, ns[id].possible_moves[i])

\* a mutation of Node.expand, which gives the child no parent
expand_child_orphan(v, ns, id, i) ==
    Append([ns EXCEPT ![id].possible_moves = Pop(@, i),
                      ![id].children = Append(@, Len(ns) + 1)],
           [new_child(v, ns, id, i) EXCEPT !.parent = NoNode])

\* Node.expand on a node that is no leaf, for the untried move of index i:
\* the arena with the child appended, not yet simulated
expand_child(v, ns, id, i) ==
    Append([ns EXCEPT ![id].possible_moves = Pop(@, i),
                      ![id].children = Append(@, Len(ns) + 1)],
           new_child(v, ns, id, i))

\* the results Node.simulate can pass to backprop
simulate(v, gamestate) ==
    IF v = "lists" THEN simulate_lists(gamestate) ELSE simulate_mutable(gamestate)

\* the result Node.expand passes to backprop on a leaf
leaf_result(v, gamestate) ==
    IF v = "lists"
    THEN IF is_won(gamestate) THEN get_player(gamestate) ELSE None
    ELSE available_result(gamestate)

\* Node.expand: every outcome [ns, err, start, result, move], start the node
\* backprop is called on and move the move expanded (NoneMove on a leaf)
expand(v, ns, id) ==
    IF ~ns[id].is_leaf
    THEN IF ns[id].possible_moves = <<>>
         THEN {[ns |-> ns, err |-> "IndexError", start |-> id, result |-> None,
                move |-> NoneMove]}
         ELSE UNION {
                {[ns     |-> backprop(expand_child(v, ns, id, i), Len(ns) + 1, result),
                  err    |-> "none",
                  start  |-> Len(ns) + 1,
                  result |-> result,
                  move   |-> ns[id].possible_moves[i]] :
                    result \in simulate(v, new_child(v, ns, id, i).gamestate)} :
                i \in 1..Len(ns[id].possible_moves)}
    ELSE {[ns     |-> backprop(ns, id, leaf_result(v, ns[id].gamestate)),
           err    |-> "none",
           start  |-> id,
           result |-> leaf_result(v, ns[id].gamestate),
           move   |-> NoneMove]}

\* root.select(constant): every outcome of one iteration of the loop of run
select_outcomes(v, ns, rootid) ==
    LET d == select(v, ns, rootid)
    IN  IF d.err # "none"
        THEN {[ns |-> d.ns, err |-> d.err, start |-> d.id, result |-> None,
               move |-> NoneMove]}
        ELSE expand(v, d.ns, d.id)

(***************************************************************************)
(* MonteCarloTreeSearch.                                                   *)
(***************************************************************************)
\* the ids a Python reference chain from node r reaches: over children and
\* parent
RECURSIVE reach(_, _)
reach(ns, S) ==
    LET T == (S \cup UNION {SeqToSet(ns[i].children) : i \in S}
                \cup {ns[i].parent : i \in S}) \ {NoNode}
    IN  IF T = S THEN S ELSE reach(ns, T)

\* the arena without the objects no reference reaches, the ids renumbered in
\* their order
collect(ns, rootid) ==
    LET live  == reach(ns, {rootid})
        new(i) == Cardinality({j \in live : j <= i})
        old   == SelectSeq([i \in 1..Len(ns) |-> i], LAMBDA i : i \in live)
    IN  [k \in 1..Len(old) |->
            [ns[old[k]] EXCEPT
                !.parent = IF @ = NoNode THEN NoNode ELSE new(@),
                !.children = [c \in 1..Len(@) |-> new(@[c])]]]

\* a mutation of swap_root, which leaves the new root its parent
swap_root_keeps_parent(ns, next_node) == ns

\* swap_root: the arena after "self.root = next_node; self.root.parent = None"
swap_root(ns, next_node) == [ns EXCEPT ![next_node].parent = NoNode]

\* set_root_to_move: the first child of the root with this played_move, or
\* NoNode
find_child(ns, rootid, move) ==
    LET kids == ns[rootid].children
        hits == {i \in 1..Len(kids) : ns[kids[i]].played_move = move}
    IN  IF hits = {} THEN NoNode
        ELSE kids[CHOOSE i \in hits : \A j \in hits : i <= j]

\* set_root_to_move: [ns, root, err] before the garbage is collected
set_root_to_move(v, ns, rootid, move) ==
    IF find_child(ns, rootid, move) # NoNode
    THEN [ns   |-> swap_root(ns, find_child(ns, rootid, move)),
          root |-> find_child(ns, rootid, move),
          err  |-> "none"]
    ELSE IF v = "lists"
    THEN [ns   |-> swap_root(Append(ns, Node_lists(move_lists(ns[rootid].gamestate, move),
                                                   NoNode, move)),
                             Len(ns) + 1),
          root |-> Len(ns) + 1,
          err  |-> "none"]
    ELSE IF move \notin WIN_STATE_MOVE_KEYS
    THEN [ns |-> ns, root |-> rootid, err |-> "KeyError"]
    ELSE [ns   |-> swap_root(Append(ns, Node_mutable(ns[rootid].gamestate, NoNode, move)),
                             Len(ns) + 1),
          root |-> Len(ns) + 1,
          err  |-> "none"]

\* mutable: Node.calc_best, in thousandths
calc_best(n) == win_rate(n.wins, n.visits)

\* a mutation of max(children, key=calc_best), which keeps the last child of
\* the greatest key
RECURSIVE max_by_calc_best_last(_, _, _, _)
max_by_calc_best_last(ns, kids, i, best) ==
    IF i > Len(kids) THEN best
    ELSE max_by_calc_best_last(ns, kids, i + 1,
                               IF calc_best(ns[best]) <= calc_best(ns[kids[i]])
                               THEN kids[i] ELSE best)

\* mutable: max(children, key=calc_best): the first child of the greatest key
RECURSIVE max_by_calc_best(_, _, _, _)
max_by_calc_best(ns, kids, i, best) ==
    IF i > Len(kids) THEN best
    ELSE max_by_calc_best(ns, kids, i + 1,
                          IF calc_best(ns[best]) < calc_best(ns[kids[i]])
                          THEN kids[i] ELSE best)

\* mutable: Node.best_child: [ns, err, best]
best_child(ns, rootid) ==
    LET kids == ns[rootid].children
    IN  IF \E i \in 1..Len(kids) : ns[kids[i]].visits = 0
        THEN [ns |-> ns, err |-> "ZeroDivisionError", best |-> NoNode]
        ELSE IF kids = <<>>
        THEN [ns |-> ns, err |-> "ValueError", best |-> NoNode]
        ELSE [ns |-> ns, err |-> "none",
              best |-> max_by_calc_best(ns, kids, 2, kids[1])]

\* lists: the child choose_best swaps to: [ns, err, best]
best_by_uct(ns, rootid) ==
    LET kids == ns[rootid].children
        r == calc_uct_all(ns, kids, 1, 0)
    IN  IF r.err # "none" THEN [ns |-> r.ns, err |-> r.err, best |-> NoNode]
        ELSE IF kids = <<>>
        THEN [ns |-> r.ns, err |-> "ValueError", best |-> NoNode]
        ELSE [ns |-> r.ns, err |-> "none", best |-> max_by_uct(r.ns, kids, 2, kids[1])]

\* a mutation of choose_best, which returns the played_move of the root it
\* leaves
choose_best_stale(v, ns, rootid) ==
    LET b == IF v = "lists" THEN best_by_uct(ns, rootid) ELSE best_child(ns, rootid)
    IN  IF b.err # "none"
        THEN [ns |-> b.ns, root |-> rootid, err |-> b.err, move |-> NoneMove]
        ELSE [ns   |-> swap_root(b.ns, b.best),
              root |-> b.best,
              err  |-> "none",
              move |-> b.ns[rootid].played_move]

\* choose_best: [ns, root, err, move] before the garbage is collected
choose_best(v, ns, rootid) ==
    LET b == IF v = "lists" THEN best_by_uct(ns, rootid) ELSE best_child(ns, rootid)
    IN  IF b.err # "none"
        THEN [ns |-> b.ns, root |-> rootid, err |-> b.err, move |-> NoneMove]
        ELSE [ns   |-> swap_root(b.ns, b.best),
              root |-> b.best,
              err  |-> "none",
              move |-> b.ns[b.best].played_move]

(***************************************************************************)
(* The state.  MonteCarloTreeSearch.first_move only lengthens the time     *)
(* budget of the first run and MonteCarloTreeSearch.iterations is written  *)
(* by swap_root and read by no code of the search: the time budget is a    *)
(* guard here, and neither field is part of the state.                     *)
(***************************************************************************)
VARIABLES
    variant,     \* "lists" (mcts_lists.py) or "mutable" (mcts_mutable.py)
    nodes,       \* the Node objects, by id
    root,        \* MonteCarloTreeSearch.root
    last,        \* the last call: what it was given and what it did
    unit         \* the object a single function is applied to, and its result

vars == <<variant, nodes, root, last, unit>>

\* the record of a call: its name, the move it was given or has returned or
\* expanded, the exception it raised, and for select the node backprop was
\* called on and the result it was given
Call(op, move, err, start, result) ==
    [op |-> op, move |-> move, err |-> err, start |-> start, result |-> result]

\* no single function is under study
NoUnit == [op |-> "none"]

\* move is one empty cell of the board
is_empty_cell(gamestate, move) ==
    move \in SeqToSet(get_available_moves(gamestate))

\* a move the rules of the game allow on this board
is_legal(gamestate, move) ==
    is_empty_cell(gamestate, move) /\ ~is_terminated(gamestate)

\* no exception has ended the program
Alive == last.err = "none"

\* the id collect gives node i
renumber(ns, rootid, i) == Cardinality({j \in reach(ns, {rootid}) : j <= i})

\* the search of a new game of mcts_lists.py: MonteCarloTreeSearch()
InitGame ==
    /\ variant = "lists"
    /\ nodes = <<Node_root>>
    /\ root = 1
    /\ last = Call("init", NoneMove, "none", NoNode, None)
    /\ unit = NoUnit

\* the effect of mcts.set_root_to_move(move), called by op
SetRoot(op, move) ==
    LET r == set_root_to_move(variant, nodes, root, move)
    IN  /\ nodes' = IF r.err = "none" THEN collect(r.ns, r.root) ELSE nodes
        /\ root' = IF r.err = "none" THEN renumber(r.ns, r.root, r.root) ELSE root
        /\ last' = Call(op, move, r.err, NoNode, None)
        /\ UNCHANGED <<variant, unit>>

\* PlayGame.move(input_move) up to its call of run(): CONVERT_MOVE and
\* set_root_to_move, for the notation of a legal move or, as the first call
\* of a game, of no move
PlayMove(input_move) ==
    /\ Alive
    /\ IF CONVERT_MOVE(input_move) # NoneMove
       THEN /\ is_legal(nodes[root].gamestate, CONVERT_MOVE(input_move))
            /\ SetRoot("PlayGame.move", CONVERT_MOVE(input_move))
       ELSE /\ last.op = "init"
            /\ last' = Call("PlayGame.move", NoneMove, "none", NoNode, None)
            /\ UNCHANGED <<variant, nodes, root, unit>>

\* run(): one iteration of the loop, self.root.select(constant), while the
\* time budget lasts
Iterate(time_left) ==
    /\ Alive
    /\ time_left
    /\ \E o \in select_outcomes(variant, nodes, root) :
          /\ nodes' = o.ns
          /\ last' = Call("select", o.move, o.err, o.start, o.result)
    /\ UNCHANGED <<variant, root, unit>>

\* a budget that ends when the root has MaxVisits visits
Select == Iterate(nodes[root].visits < MaxVisits * VisitUnit)

\* a budget of one iteration, on a root not searched before
SelectOnce == Iterate(nodes[root].visits = 0)

\* run(): the loop ends, and run returns choose_best()
ChooseBest ==
    /\ Alive
    /\ LET r == choose_best(variant, nodes, root)
       IN  /\ nodes' = IF r.err = "none" THEN collect(r.ns, r.root) ELSE r.ns
           /\ root' = IF r.err = "none" THEN renumber(r.ns, r.root, r.root) ELSE root
           /\ last' = Call("choose_best", r.move, r.err, NoNode, None)
    /\ UNCHANGED <<variant, unit>>

(***************************************************************************)
(* Whole games of mcts_lists.py, from MonteCarloTreeSearch(): every legal  *)
(* move of the caller, and runs of one iteration.                          *)
(***************************************************************************)
NextGame ==
    \/ \E input_move \in NOTATIONS : PlayMove(input_move)
    \/ SelectOnce
    \/ ChooseBest

SpecGame == InitGame /\ [][NextGame]_vars

(***************************************************************************)
(* Endgames: the search after the calls of set_root_to_move of an opening, *)
(* every legal move of the caller, and runs of up to MaxVisits iterations. *)
(***************************************************************************)
\* games of five and of six plies; from each, the other plies can end the
\* game at the seventh, the eighth or the ninth, won or drawn
OPENINGS ==
    { << "2 1", "1 0", "0 2", "2 0", "1 2", "0 1" >>,
      << "2 0", "1 1", "0 1", "2 1", "0 2", "1 2" >>,
      << "2 1", "0 0", "0 2", "1 1", "2 2", "1 2" >>,
      << "2 1", "1 0", "0 2", "2 0", "1 2" >> }

\* the arena after set_root_to_move of each move of the opening, in turn
RECURSIVE replay(_, _, _)
replay(v, ns, opening) ==
    IF opening = <<>> THEN ns
    ELSE LET r == set_root_to_move(v, ns, 1, CONVERT_MOVE(Head(opening)))
         IN  replay(v, collect(r.ns, r.root), Tail(opening))

Init ==
    /\ variant \in {"lists", "mutable"}
    /\ \E opening \in OPENINGS : nodes = replay(variant, <<Node_root>>, opening)
    /\ root = 1
    /\ last = Call("init", NoneMove, "none", NoNode, None)
    /\ unit = NoUnit

Next ==
    \/ \E input_move \in NOTATIONS : PlayMove(input_move)
    \/ Select
    \/ ChooseBest

Spec == Init /\ [][Next]_vars

(***************************************************************************)
(* set_root_to_move with a move the rules do not allow: a cell that is     *)
(* taken, any cell of a board that is terminal, or a mask that is no cell. *)
(* What the program does after such a call is not explored.                *)
(***************************************************************************)
\* 0, 0b1000000000 and 0b000000011: masks that are no cell
BAD_MOVES == {{}, {9}, {1, 0}}

IllegalMove(move) ==
    /\ Alive
    /\ last.op # "illegal set_root_to_move"
    /\ ~is_legal(nodes[root].gamestate, move)
    /\ SetRoot("illegal set_root_to_move", move)

NextIllegal ==
    \/ Next /\ last.op # "illegal set_root_to_move"
    \/ \E move \in SeqToSet(POSSIBLE_MOVES) \cup BAD_MOVES : IllegalMove(move)

SpecIllegal == Init /\ [][NextIllegal]_vars

(***************************************************************************)
(* GameSimulator.play_out, one iteration of its loop at a time, on every   *)
(* board legal play reaches, for either player to have moved last at the   *)
(* start.                                                                  *)
(***************************************************************************)
\* the search, when a single function is under study
NoSearch ==
    /\ variant = "lists"
    /\ nodes = <<Node_root>>
    /\ root = 1
    /\ last = Call("init", NoneMove, "none", NoNode, None)

InitSim ==
    /\ NoSearch
    /\ \E player \in {0, 1} :
          unit = [op |-> "GameState", gs |-> [NewGameState EXCEPT !.player = player],
                  result |-> None]

\* lists: state = GameState(state).move(move), for a legal move
GameStateMove(move) ==
    /\ unit.op = "GameState"
    /\ is_legal(unit.gs, move)
    /\ unit' = [unit EXCEPT !.gs = move_lists(unit.gs, move)]
    /\ UNCHANGED <<variant, nodes, root, last>>

\* GameSimulator(state).play_out() is called, the game being on
PlayOut ==
    /\ unit.op = "GameState"
    /\ ~is_terminated(unit.gs)
    /\ unit' = [unit EXCEPT !.op = "play_out"]
    /\ UNCHANGED <<variant, nodes, root, last>>

\* one iteration of the loop of play_out and, when it was the last, the return
SimulateMove ==
    /\ unit.op = "play_out"
    /\ \E s \in simulate_move(unit.gs) :
          unit' = IF is_terminated(s)
                  THEN [op |-> "return", gs |-> s, result |-> play_out_result(s)]
                  ELSE [op |-> "play_out", gs |-> s, result |-> None]
    /\ UNCHANGED <<variant, nodes, root, last>>

NextSim ==
    \/ \E move \in SeqToSet(POSSIBLE_MOVES) : GameStateMove(move)
    \/ PlayOut
    \/ SimulateMove

SpecSim == InitSim /\ [][NextSim]_vars

(***************************************************************************)
(* GameSimulator.play_out called on any board legal play reaches, the      *)
(* boards on which the game has ended among them.                          *)
(***************************************************************************)
\* GameSimulator(state).play_out() is called, the game having ended
PlayOutTerminal ==
    /\ unit.op = "GameState"
    /\ is_terminated(unit.gs)
    /\ unit' = [unit EXCEPT !.op = "play_out"]
    /\ UNCHANGED <<variant, nodes, root, last>>

\* _simulate_move with no cell left: random.choice of an empty list raises
SimulateMoveRaises ==
    /\ unit.op = "play_out"
    /\ get_available_moves(unit.gs) = <<>>
    /\ unit' = [unit EXCEPT !.op = "IndexError"]
    /\ UNCHANGED <<variant, nodes, root, last>>

NextPlayOut ==
    \/ NextSim
    \/ PlayOutTerminal
    \/ SimulateMoveRaises

SpecPlayOut == InitSim /\ [][NextPlayOut]_vars

(***************************************************************************)
(* GameState.is_won on every pair of 9-bit occupancy values, legal or not. *)
(***************************************************************************)
\* the 9-bit values
OCCUPANCIES == SUBSET FULL_BOARD

InitBoard ==
    /\ NoSearch
    /\ \E player \in {0, 1}, b0 \in OCCUPANCIES, b1 \in OCCUPANCIES :
          unit = [op |-> "GameState", gs |-> [player |-> player, board |-> Board(b0, b1)],
                  result |-> FALSE]

IsWon ==
    /\ unit.op = "GameState"
    /\ unit' = [unit EXCEPT !.op = "is_won", !.result = is_won(unit.gs)]
    /\ UNCHANGED <<variant, nodes, root, last>>

SpecBoard == InitBoard /\ [][IsWon]_vars

(***************************************************************************)
(* GameState.move of mcts_lists and GameState.get_available_moves on every *)
(* pair of 9-bit occupancy values.  Neither assigns to a field of its      *)
(* receiver: gs is the receiver after the call, given the receiver before. *)
(***************************************************************************)
InitState ==
    /\ NoSearch
    /\ \E player \in {0, 1}, b0 \in OCCUPANCIES, b1 \in OCCUPANCIES :
          unit = [op |-> "GameState", gs |-> [player |-> player, board |-> Board(b0, b1)],
                  given |-> [player |-> player, board |-> Board(b0, b1)],
                  move |-> NoneMove, first |-> <<>>, result |-> <<>>]

\* lists: GameState(state).move(move), for a cell of neither occupancy
Move(move) ==
    /\ unit.op = "GameState"
    /\ And(move, Or(unit.gs.board[0], unit.gs.board[1])) = {}
    /\ unit' = [unit EXCEPT !.op = "move", !.move = move,
                            !.result = move_lists(unit.gs, move)]
    /\ UNCHANGED <<variant, nodes, root, last>>

\* GameState(state).get_available_moves()
GetAvailableMoves ==
    /\ unit.op = "GameState"
    /\ unit' = [unit EXCEPT !.op = "get_available_moves",
                            !.result = get_available_moves(unit.gs)]
    /\ UNCHANGED <<variant, nodes, root, last>>

\* get_available_moves() once more, on the same object
GetAvailableMovesAgain ==
    /\ unit.op = "get_available_moves"
    /\ unit' = [unit EXCEPT !.op = "get_available_moves again",
                            !.first = unit.result,
                            !.result = get_available_moves(unit.gs)]
    /\ UNCHANGED <<variant, nodes, root, last>>

NextState ==
    \/ \E move \in SeqToSet(POSSIBLE_MOVES) : Move(move)
    \/ GetAvailableMoves
    \/ GetAvailableMovesAgain

SpecState == InitState /\ [][NextState]_vars

(***************************************************************************)
(* Node.calc_uct on a node and its parent, for any counts of visits and    *)
(* wins: the counts a search leaves and the counts a caller can set.       *)
(***************************************************************************)
\* the values of visits: 0, 0.001 and the whole numbers up to MaxVisits
VISITS == {0, EPSILON} \cup {k * VisitUnit : k \in 1..MaxVisits}

\* a root with one child, with the given counts
Family(parent_visits, visits, wins) ==
    << [Node_root EXCEPT !.visits = parent_visits, !.children = <<2>>,
                         !.possible_moves = Tail(@)],
       [Node_lists(move_lists(NewGameState, POSSIBLE_MOVES[1]), 1, POSSIBLE_MOVES[1])
            EXCEPT !.visits = visits, !.wins = wins] >>

InitUct ==
    /\ variant \in {"lists", "mutable"}
    /\ nodes = <<Node_root>>
    /\ root = 1
    /\ last = Call("init", NoneMove, "none", NoNode, None)
    /\ \E parent_visits \in VISITS, visits \in VISITS, wins \in 0..MaxVisits,
          constant \in {0, EXPLORATION_CONST} :
          unit = [op |-> "Node", ns |-> Family(parent_visits, visits, wins),
                  given |-> Family(parent_visits, visits, wins),
                  constant |-> constant, err |-> "none", value |-> 0]

\* child.calc_uct(constant) (lists) and child.calc_uct() (mutable)
CalcUct ==
    /\ unit.op = "Node"
    /\ variant = "mutable" => unit.constant = EXPLORATION_CONST
    /\ LET r == calc_uct(unit.ns, 2, unit.constant, variant = "lists")
       IN  unit' = [op |-> "calc_uct", ns |-> r.ns, given |-> unit.ns,
                    constant |-> unit.constant, err |-> r.err, value |-> r.value]
    /\ UNCHANGED <<variant, nodes, root, last>>

SpecUct == InitUct /\ [][CalcUct]_vars

(***************************************************************************)
(* One branch of the tree and the playout of its last node, a move at a    *)
(* time: the node of the branch is made by set_root_to_move or by          *)
(* Node.expand, and Node.simulate runs on a node expand has made, one      *)
(* iteration of its loop per step.                                         *)
(***************************************************************************)
InitBranch ==
    /\ variant \in {"lists", "mutable"}
    /\ nodes = <<Node_root>>
    /\ root = 1
    /\ last = Call("init", NoneMove, "none", NoNode, None)
    /\ unit = [op |-> "Node", node |-> Node_root]

\* set_root_to_move(move) on a root without children, for a legal move: the
\* new root
SetRootToMove(move) ==
    /\ unit.op = "Node"
    /\ is_legal(unit.node.gamestate, move)
    /\ LET r == set_root_to_move(variant, <<[unit.node EXCEPT !.parent = NoNode]>>, 1, move)
       IN  unit' = [op |-> "Node", node |-> r.ns[r.root]]
    /\ UNCHANGED <<variant, nodes, root, last>>

\* Node.expand on a node that is no leaf, for the untried move of index i:
\* the child it appends
ExpandChild(i) ==
    /\ unit.op = "Node"
    /\ ~unit.node.is_leaf
    /\ i \in 1..Len(unit.node.possible_moves)
    /\ unit' = [op |-> "Node", node |-> new_child(variant, <<unit.node>>, 1, i)]
    /\ UNCHANGED <<variant, nodes, root, last>>

\* Node.simulate on the child expand has made, up to its loop: lists makes a
\* GameSimulator and calls play_out when the game is on, and has the result
\* at once when it is not; mutable copies the board and enters its loop
Simulate ==
    /\ unit.op = "Node"
    /\ unit.node.parent # NoNode
    /\ LET gs == unit.node.gamestate
       IN  unit' = IF variant = "lists"
                   THEN IF ~is_terminated(gs)
                        THEN [op |-> "play_out", gs |-> gs, result |-> None]
                        ELSE [op |-> "backprop", gs |-> gs,
                              result |-> IF is_won(gs) THEN Not(get_player(gs)) ELSE None]
                   ELSE [op |-> "simulate", gs |-> gs, result |-> None]
    /\ UNCHANGED <<variant, nodes, root, last>>

\* mutable: one iteration of the loop of Node.simulate and, when it was the
\* last, the result passed to backprop
SimulateLoop ==
    /\ unit.op = "simulate"
    /\ IF get_available_moves(unit.gs) = <<>>
       THEN unit' = [op |-> "backprop", gs |-> unit.gs, result |-> available_result(unit.gs)]
       ELSE \E new_move \in SeqToSet(get_available_moves(unit.gs)) :
               LET sim == move_mutable(unit.gs, new_move)
               IN  unit' = IF move_mutable_terminal(sim, new_move)
                           THEN [op |-> "backprop", gs |-> sim, result |-> available_result(sim)]
                           ELSE [op |-> "simulate", gs |-> sim, result |-> None]
    /\ UNCHANGED <<variant, nodes, root, last>>

NextBranch ==
    \/ \E move \in SeqToSet(POSSIBLE_MOVES) : SetRootToMove(move)
    \/ \E i \in 1..Len(POSSIBLE_MOVES) : ExpandChild(i)
    \/ Simulate
    \/ SimulateMove
    \/ SimulateLoop

SpecBranch == InitBranch /\ [][NextBranch]_vars

(***************************************************************************)
(* The vocabulary of the properties, independent of the operators above.   *)
(***************************************************************************)
\* the moves that are one empty cell of the board
EmptyCells(gamestate) ==
    {{cell} : cell \in (0..8) \ (gamestate.board[0] \cup gamestate.board[1])}

\* the board with the move added for the player whose turn it is
Applied(gamestate, move) ==
    [player |-> 1 - gamestate.player,
     board  |-> [p \in {0, 1} |-> IF p = 1 - gamestate.player
                                  THEN gamestate.board[p] \cup move
                                  ELSE gamestate.board[p]]]

\* the bit of the cell of a column and a row, as CONVERT_MOVE numbers them
Cell(column, row) == 8 - (3 * row + column)

\* the rows, the columns and the two diagonals of the grid
LINES ==
    {{Cell(column, row) : column \in 0..2} : row \in 0..2}
        \cup {{Cell(column, row) : row \in 0..2} : column \in 0..2}
        \cup {{Cell(k, k) : k \in 0..2}, {Cell(2 - k, k) : k \in 0..2}}

\* the occupancy holds a whole line
HasLine(occupancy) == \E line \in LINES : line \subseteq occupancy

\* the game has ended on this board: a whole line, or no empty cell
Terminal(gamestate) ==
    \/ HasLine(gamestate.board[0])
    \/ HasLine(gamestate.board[1])
    \/ EmptyCells(gamestate) = {}

\* the tree below a node without the ids: what the node holds, and the trees
\* below its children, in their order
RECURSIVE Subtree(_, _)
Subtree(ns, id) ==
    [gamestate      |-> ns[id].gamestate,
     visits         |-> ns[id].visits,
     wins           |-> ns[id].wins,
     possible_moves |-> ns[id].possible_moves,
     played_move    |-> ns[id].played_move,
     children       |-> [c \in 1..Len(ns[id].children) |-> Subtree(ns, ns[id].children[c])]]

\* the ids children links reach from the ids of S
RECURSIVE Below(_, _)
Below(ns, S) ==
    LET T == S \cup UNION {SeqToSet(ns[i].children) : i \in S}
    IN  IF T = S THEN S ELSE Below(ns, T)

\* the ids on the way from a node up to the node without parent
RECURSIVE Path(_, _)
Path(ns, id) ==
    IF ns[id].parent = NoNode THEN {id} ELSE {id} \cup Path(ns, ns[id].parent)

\* the first child of the root that was reached by the move, if any
Reached(move) ==
    {nodes[root].children[i] : i \in
        {j \in 1..Len(nodes[root].children) :
            /\ nodes[nodes[root].children[j]].played_move = move
            /\ \A k \in 1..(j - 1) : nodes[nodes[root].children[k]].played_move # move}}

(***************************************************************************)
(* The GameState objects of mcts_mutable.py as objects: heap[a] is the     *)
(* object of address a, the gamestate of a node is an address, and a move  *)
(* changes the object in place.  unit holds the heap, the nodes (counters  *)
(* left out), the root and the address of the board of the playout in      *)
(* progress, or NoNode.  Nodes a swap of the root has discarded stay in    *)
(* the arena, as a caller may still hold them.                             *)
(***************************************************************************)
\* a mutation of GameState(gamestate.get_state()), which hands out the
\* object itself
GameState_shared(heap, address) == [heap |-> heap, address |-> address]

\* mutable: GameState(gamestate.get_state()): get_state makes a dictionary
\* with a tuple of the two occupancies, and __init__ a new object with a new
\* list
GameState_copy(heap, address) ==
    [heap |-> Append(heap, heap[address]), address |-> Len(heap) + 1]

\* mutable: Node(gamestate=GameState(of.get_state()), parent, played_move):
\* the heap and the node, whose __init__ moves the object it is given
Node_object(heap, of, parent, played_move) ==
    LET copy == GameState_copy(heap, of)
        node == Node_mutable(copy.heap[copy.address], parent, played_move)
    IN  [heap |-> [copy.heap EXCEPT ![copy.address] = node.gamestate],
         node |-> [node EXCEPT !.gamestate = copy.address]]

\* the heap without the board of a playout that has ended, when nothing
\* else refers to it
release(heap, ns, address) ==
    IF address = Len(heap) /\ \A id \in 1..Len(ns) : ns[id].gamestate # address
    THEN SubSeq(heap, 1, Len(heap) - 1)
    ELSE heap

InitHeap ==
    /\ variant = "mutable"
    /\ nodes = <<Node_root>>
    /\ root = 1
    /\ last = Call("init", NoneMove, "none", NoNode, None)
    /\ \E opening \in OPENINGS :
          LET given == replay("mutable", <<Node_root>>, opening)[1]
          IN  unit = [op |-> "Node", heap |-> <<given.gamestate>>,
                      nodes |-> <<[given EXCEPT !.gamestate = 1]>>,
                      root |-> 1, sim |-> NoNode]

\* select has come down to the node: no node above it, up to the root, has
\* an untried move
selected(ns, rootid, id) ==
    /\ rootid \in Path(ns, id)
    /\ \A above \in Path(ns, id) \ {id} : ns[above].possible_moves = <<>>

\* mutable: Node.expand on the node select has come down to, for the untried
\* move of index i, and Node.simulate on the child up to its loop; a run
\* makes MaxVisits nodes at most
HeapExpand(id, i) ==
    /\ unit.op = "Node"
    /\ Len(unit.nodes) < MaxVisits
    /\ id \in 1..Len(unit.nodes)
    /\ selected(unit.nodes, unit.root, id)
    /\ ~unit.nodes[id].is_leaf
    /\ i \in 1..Len(unit.nodes[id].possible_moves)
    /\ LET child == Node_object(unit.heap, unit.nodes[id].gamestate, id,
                                unit.nodes[id].possible_moves[i])
           sim == GameState_copy(child.heap, child.node.gamestate)
       IN  unit' = [op |-> "simulate",
                    heap |-> sim.heap,
                    nodes |-> Append([unit.nodes EXCEPT
                                         ![id].possible_moves = Pop(@, i),
                                         ![id].children = Append(@, Len(unit.nodes) + 1)],
                                     child.node),
                    root |-> unit.root,
                    sim |-> sim.address]
    /\ UNCHANGED <<variant, nodes, root, last>>

\* mutable: one iteration of the loop of Node.simulate, on the object sim
HeapSimulateLoop ==
    /\ unit.op = "simulate"
    /\ IF get_available_moves(unit.heap[unit.sim]) = <<>>
       THEN unit' = [unit EXCEPT !.op = "Node", !.sim = NoNode,
                                 !.heap = release(unit.heap, unit.nodes, unit.sim)]
       ELSE \E new_move \in SeqToSet(get_available_moves(unit.heap[unit.sim])) :
               LET moved == [unit.heap EXCEPT ![unit.sim] = move_mutable(@, new_move)]
               IN  unit' = IF move_mutable_terminal(moved[unit.sim], new_move)
                           THEN [unit EXCEPT !.op = "Node", !.sim = NoNode,
                                             !.heap = release(moved, unit.nodes, unit.sim)]
                           ELSE [unit EXCEPT !.heap = moved]
    /\ UNCHANGED <<variant, nodes, root, last>>

\* mutable: set_root_to_move(move), for a legal move: the child of the move,
\* or a new node
HeapSetRootToMove(move) ==
    /\ unit.op = "Node"
    /\ Len(unit.nodes) < MaxVisits
    /\ is_legal(unit.heap[unit.nodes[unit.root].gamestate], move)
    /\ LET next_node == find_child(unit.nodes, unit.root, move)
           made == Node_object(unit.heap, unit.nodes[unit.root].gamestate, NoNode, move)
       IN  unit' = IF next_node # NoNode
                   THEN [unit EXCEPT !.nodes = swap_root(unit.nodes, next_node),
                                     !.root = next_node]
                   ELSE [unit EXCEPT !.heap = made.heap,
                                     !.nodes = Append(unit.nodes, made.node),
                                     !.root = Len(unit.nodes) + 1]
    /\ UNCHANGED <<variant, nodes, root, last>>

NextHeap ==
    \/ \E id \in 1..MaxVisits, i \in 1..Len(POSSIBLE_MOVES) : HeapExpand(id, i)
    \/ HeapSimulateLoop
    \/ \E move \in SeqToSet(POSSIBLE_MOVES) : HeapSetRootToMove(move)

SpecHeap == InitHeap /\ [][NextHeap]_vars

(***************************************************************************)
(* The claims.                                                             *)
(***************************************************************************)
\* C1: set_root_to_move(m), m an empty cell of the board of the root, makes
\* the root the child for m when there is one, its visits, wins, untried
\* moves and whole subtree as they were, and else a new node with no visits,
\* no wins and no children whose board is the board of the old root with m
\* added; the new root has no parent, and nothing but the tree below it is
\* kept: the old root and its other children are not reached from it.
C1_SetRootToMove ==
    [][(last'.op = "PlayGame.move" /\ last'.move # NoneMove) =>
         /\ last'.err = "none"
         /\ nodes'[root'].parent = NoNode
         /\ Below(nodes', {root'}) = 1..Len(nodes')
         /\ \A child \in Reached(last'.move) :
                Subtree(nodes', root') = Subtree(nodes, child)
         /\ Reached(last'.move) = {} =>
                /\ nodes'[root'].visits = 0
                /\ nodes'[root'].wins = 0
                /\ nodes'[root'].children = <<>>
                /\ Len(nodes') = 1
                /\ nodes'[root'].gamestate = Applied(nodes[root].gamestate, last'.move)
                /\ nodes'[root'].played_move = last'.move]_vars

\* the root is a child that was searched below, reached by set_root_to_move
C1_Witness ==
    /\ last.op = "PlayGame.move"
    /\ last.move # NoneMove
    /\ nodes[root].visits >= 2 * VisitUnit
    /\ nodes[root].children # <<>>

\* what a node held before the iteration: a node the iteration made held nothing
Before(id, field) == IF id <= Len(nodes) THEN nodes[id][field] ELSE 0

\* C2: backprop(result) called on a node adds 1 to the visits of the node and
\* of every ancestor up to the root, adds 1 to the wins of exactly the nodes
\* of that path whose board has the winner as the player who moved into it
\* (of none when the result is a draw), and leaves the visits and wins of
\* every other node as they were.
C2_Backprop ==
    [][(last'.op = "select" /\ last'.err = "none") =>
         /\ root \in Path(nodes', last'.start)
         /\ \A id \in 1..Len(nodes') :
                LET on_path == id \in Path(nodes', last'.start)
                    credited == /\ on_path
                                /\ last'.result # None
                                /\ nodes'[id].gamestate.player = last'.result
                IN  /\ nodes'[id].visits
                          = Before(id, "visits") + (IF on_path THEN VisitUnit ELSE 0)
                    /\ nodes'[id].wins
                          = Before(id, "wins") + (IF credited THEN 1 ELSE 0)]_vars

\* a won playout was backpropagated over a path of three nodes, next to a
\* node that is not on the path
C2_Witness ==
    /\ last.op = "select"
    /\ last.err = "none"
    /\ last.result # None
    /\ Cardinality(Path(nodes, last.start)) >= 3
    /\ Len(nodes) > Cardinality(Path(nodes, last.start))

\* C3: GameSimulator.play_out, started on a board legal play reaches and that
\* is not terminal, returns player p exactly when the board it ends on holds
\* a whole line of p, and None exactly when it holds a whole line of neither;
\* with one empty cell left, the mover when the cell completes a line of the
\* mover and None otherwise.
C3_PlayOut ==
    unit.op = "return" =>
        /\ \A p \in {0, 1} : (unit.result = p) <=> HasLine(unit.gs.board[p])
        /\ (unit.result = None) <=> (~HasLine(unit.gs.board[0]) /\ ~HasLine(unit.gs.board[1]))

\* a playout has ended on a full board whose last cell completed a line
C3_Witness ==
    /\ unit.op = "return"
    /\ unit.result # None
    /\ unit.gs.board[0] \cup unit.gs.board[1] = 0..8

\* C4: is_won() is true exactly when one of the eight lines is contained in
\* occupancy[0] or in occupancy[1], for every pair of 9-bit occupancy values
\* and either value of the player field.
C4_IsWon ==
    unit.op = "is_won" =>
        (unit.result <=> (HasLine(unit.gs.board[0]) \/ HasLine(unit.gs.board[1])))

\* is_won was true for a line of the player who did not move last, on a pair
\* of values no game reaches
C4_Witness ==
    /\ unit.op = "is_won"
    /\ unit.result
    /\ ~HasLine(unit.gs.board[unit.gs.player])
    /\ unit.gs.board[0] \cap unit.gs.board[1] # {}

\* the children of the root of the greatest wins / visits, compared as
\* fractions
Winners ==
    {i \in 1..Len(nodes[root].children) :
        \A j \in 1..Len(nodes[root].children) :
            nodes[nodes[root].children[j]].wins * nodes[nodes[root].children[i]].visits
                <= nodes[nodes[root].children[i]].wins * nodes[nodes[root].children[j]].visits}

\* the first of them
FirstWinner == nodes[root].children[CHOOSE i \in Winners : \A j \in Winners : i <= j]

\* C5: choose_best, on a root with at least one child, makes the root the
\* child of the greatest wins / visits, the first in the order of the children
\* among equals, and returns the played_move of that child; the choice by UCT
\* with constant 0 (lists) and the choice of best_child (mutable) are the same
\* child for the same counters.
C5_ChooseBest ==
    [][(last'.op = "choose_best" /\ nodes[root].children # <<>>) =>
         /\ last'.err = "none"
         /\ Subtree(nodes', root') = Subtree(nodes, FirstWinner)
         /\ last'.move = nodes[FirstWinner].played_move
         /\ best_by_uct(nodes, root).err = "none"
         /\ best_by_uct(nodes, root).best = FirstWinner
         /\ best_child(nodes, root).err = "none"
         /\ best_child(nodes, root).best = FirstWinner]_vars

\* choose_best has made a child the root that was searched below
C5_Witness ==
    /\ last.op = "choose_best"
    /\ last.err = "none"
    /\ nodes[root].played_move = last.move
    /\ nodes[root].children # <<>>
    /\ nodes[root].wins > 0

\* C6: from the empty board, every run() that completes at least one
\* iteration on a root that is not terminal returns a move that is an empty
\* cell of the board of the root before the call, and the board of the new
\* root is that board with exactly this move added; every ply, of run() or
\* of set_root_to_move with a legal move, is made on a board that is not
\* terminal and fills one empty cell, so that the board of the root is
\* terminal after nine plies at most.
C6_RunReturnsLegalMove ==
    [][/\ (/\ last'.op = "choose_best"
           /\ last.op = "select"
           /\ ~Terminal(nodes[root].gamestate)) =>
             /\ last'.err = "none"
             /\ last'.move \in EmptyCells(nodes[root].gamestate)
             /\ nodes'[root'].gamestate = Applied(nodes[root].gamestate, last'.move)
       /\ nodes'[root'].gamestate # nodes[root].gamestate =>
             /\ ~Terminal(nodes[root].gamestate)
             /\ \E move \in EmptyCells(nodes[root].gamestate) :
                    nodes'[root'].gamestate = Applied(nodes[root].gamestate, move)
       /\ EmptyCells(nodes'[root'].gamestate) = {} => Terminal(nodes'[root'].gamestate)]_vars

\* run() has returned the ninth ply of a game, which filled the board
C6_Witness ==
    /\ last.op = "choose_best"
    /\ last.err = "none"
    /\ last.move = nodes[root].played_move
    /\ EmptyCells(nodes[root].gamestate) = {}
    /\ ~HasLine(nodes[root].gamestate.board[0])
    /\ ~HasLine(nodes[root].gamestate.board[1])

\* C7: set_root_to_move(m), and the GameState.move(m) it calls, with m no
\* empty cell of the board (a cell that is taken, a value that is no cell)
\* fail with an error and leave the board, the root and the tree as they were.
C7_IllegalMoveRejected ==
    [][(last'.op = "illegal set_root_to_move"
            /\ last'.move \notin EmptyCells(nodes[root].gamestate)) =>
         /\ last'.err # "none"
         /\ nodes' = nodes
         /\ root' = root]_vars

\* C8: choose_best, and so run, returns a legal move whenever the root has a
\* child or an untried move, also when no iteration of select has run.
C8_ChooseBestReturnsMove ==
    [][(/\ last'.op = "choose_best"
        /\ \/ nodes[root].children # <<>>
           \/ nodes[root].possible_moves # <<>>) =>
         /\ last'.err = "none"
         /\ last'.move \in EmptyCells(nodes[root].gamestate)]_vars

\* C9: PlayGame.move calls run() only when the board of the root, the move of
\* the opponent applied, is not terminal.
C9_RunGuarded ==
    (last.op = "PlayGame.move" /\ last.err = "none") => ~Terminal(nodes[root].gamestate)

\* C10: calc_uct on a node with visits = 0 whose parent has visits = 0
\* returns a number and raises no error.
C10_CalcUctReturns ==
    (/\ unit.op = "calc_uct"
     /\ unit.given[2].visits = 0
     /\ unit.given[1].visits = 0) => unit.err = "none"

\* no value is twice in the sequence
NoDuplicates(seq) == \A i, j \in 1..Len(seq) : seq[i] = seq[j] => i = j

\* the played_move of the children of a node, in their order
Tried(ns, id) == [c \in 1..Len(ns[id].children) |-> ns[ns[id].children[c]].played_move]

\* C11: for every node of the tree whose board is not terminal, the untried
\* moves and the played_move of the children have no move in common, hold no
\* move twice, and are together exactly the empty cells of the board of the
\* node.
C11_UntriedAndChildren ==
    \A id \in 1..Len(nodes) :
        ~Terminal(nodes[id].gamestate) =>
            /\ NoDuplicates(nodes[id].possible_moves)
            /\ NoDuplicates(Tried(nodes, id))
            /\ SeqToSet(nodes[id].possible_moves) \cap SeqToSet(Tried(nodes, id)) = {}
            /\ SeqToSet(nodes[id].possible_moves) \cup SeqToSet(Tried(nodes, id))
                   = EmptyCells(nodes[id].gamestate)

\* an expansion has left a node that is not terminal with a child and an
\* untried move, below a node whose moves are all tried
C11_Witness ==
    /\ last.op = "select"
    /\ \E id \in 1..Len(nodes) :
          /\ ~Terminal(nodes[id].gamestate)
          /\ nodes[id].children # <<>>
          /\ nodes[id].possible_moves # <<>>
          /\ nodes[id].parent # NoNode
          /\ nodes[nodes[id].parent].possible_moves = <<>>

\* C12: every node of the tree has 0 <= wins <= visits.
C12_WinsWithinVisits ==
    \A id \in 1..Len(nodes) :
        /\ 0 <= nodes[id].wins
        /\ nodes[id].wins * VisitUnit <= nodes[id].visits

\* a node that was visited more than once and won every time
C12_Witness ==
    \E id \in 1..Len(nodes) :
        /\ nodes[id].wins >= 2
        /\ nodes[id].wins * VisitUnit = nodes[id].visits

\* the board a step of the branch holds: of the node, or of the playout
BranchBoard == IF unit.op = "Node" THEN unit.node.gamestate.board ELSE unit.gs.board

\* C13: when every move given to set_root_to_move is an empty cell of the
\* board of a root that is not terminal, every board of a node of the tree
\* and every board a playout reaches has no cell in both occupancies.
C13_NoCellOfBoth == And(BranchBoard[0], BranchBoard[1]) = {}

\* a playout has filled the board
C13_Witness ==
    /\ unit.op \in {"return", "backprop"}
    /\ Or(BranchBoard[0], BranchBoard[1]) = FULL_BOARD
    /\ BranchBoard[0] # {}
    /\ BranchBoard[1] # {}

\* the sum of the visits of the nodes of a sequence of ids
RECURSIVE SumVisits(_, _)
SumVisits(ns, ids) ==
    IF ids = <<>> THEN 0 ELSE ns[Head(ids)].visits + SumVisits(ns, Tail(ids))

\* the visits of a node that are not visits of its children
OwnVisits(ns, id) == ns[id].visits - SumVisits(ns, ns[id].children)

\* the iteration has taken the leaf shortcut of expand at the node
Shortcut(id) == Len(nodes') = Len(nodes) /\ last'.start = id

\* C14: every select on the root adds exactly 1 to the visits of the root
\* and, when the root is not terminal, 1 to the sum of the visits of its
\* children, so that a new root that is not terminal has after n selects n
\* visits, which is the sum of the visits of its children.  The visits of a
\* node that are not visits of its children are 1 when expand makes the
\* node, and grow by 1 with each leaf shortcut taken at the node and with
\* nothing else: a node expand has made has 1 visit, plus the visits of its
\* children, plus the leaf shortcuts taken at it.
C14_VisitsAddUp ==
    [][(last'.op = "select") =>
         /\ last'.err = "none"
         /\ nodes'[root].visits = nodes[root].visits + VisitUnit
         /\ ~Terminal(nodes[root].gamestate) =>
                SumVisits(nodes', nodes'[root].children)
                    = SumVisits(nodes, nodes[root].children) + VisitUnit
         /\ \A id \in 1..Len(nodes') :
                /\ id > Len(nodes) => OwnVisits(nodes', id) = VisitUnit
                /\ id <= Len(nodes) =>
                       OwnVisits(nodes', id)
                           = OwnVisits(nodes, id) + (IF Shortcut(id) THEN VisitUnit ELSE 0)
                /\ nodes'[id].parent # NoNode =>
                       /\ OwnVisits(nodes', id) >= VisitUnit
                       /\ ~Terminal(nodes'[id].gamestate) => OwnVisits(nodes', id) = VisitUnit
                /\ (nodes'[id].parent = NoNode /\ ~Terminal(nodes'[id].gamestate)) =>
                       OwnVisits(nodes', id) \in {0, VisitUnit}]_vars

\* the leaf shortcut was taken a second time at a node expand has made, below
\* a root that is not terminal
C14_Witness ==
    /\ last.op = "select"
    /\ last.err = "none"
    /\ last.move = NoneMove
    /\ nodes[last.start].parent # NoNode
    /\ nodes[last.start].visits >= 3 * VisitUnit
    /\ ~Terminal(nodes[root].gamestate)

\* the player whose occupancy holds a whole line, or None
LineOwner(gamestate) ==
    IF HasLine(gamestate.board[0]) THEN 0
    ELSE IF HasLine(gamestate.board[1]) THEN 1
    ELSE None

\* C15: play_out called on a board on which the game has ended applies no
\* move and returns the outcome of that board: None for a full board without
\* a whole line, and the owner of the line for a board that is won, with or
\* without empty cells.
C15_PlayOutOnTerminal ==
    [][(unit.op = "play_out" /\ Terminal(unit.gs)) =>
         /\ unit'.op = "return"
         /\ unit'.gs = unit.gs
         /\ unit'.result = LineOwner(unit.gs)]_vars

\* C16: for every board and every empty cell m, GameState.move(m) of
\* mcts_lists returns a state whose player is the other player, in which the
\* occupancy of the mover is the old one with m added and the occupancy of
\* the other player is the old one, and leaves the board and the player of
\* the receiver as they were.
C16_MoveReturnsNewState ==
    unit.op = "move" =>
        /\ unit.result.player = 1 - unit.given.player
        /\ unit.result.board[unit.result.player]
               = unit.given.board[unit.result.player] \cup unit.move
        /\ unit.result.board[unit.given.player] = unit.given.board[unit.given.player]
        /\ unit.gs = unit.given

\* a move of player 1 on a board of legal play, which completed a line
C16_Witness ==
    /\ unit.op = "move"
    /\ unit.result.player = 1
    /\ unit.given.board[0] \cap unit.given.board[1] = {}
    /\ Cardinality(unit.given.board[0]) = Cardinality(unit.given.board[1]) + 1
    /\ ~HasLine(unit.given.board[1])
    /\ HasLine(unit.result.board[1])

\* the place of a cell in the order of POSSIBLE_MOVES: from '0 0', row by row
Place(move) == CHOOSE k \in 1..9 : move = {9 - k}

\* C17: for every pair of occupancy values, get_available_moves() returns
\* the masks of one cell of the cells that are in neither occupancy, each
\* once, in the order of POSSIBLE_MOVES; the list is empty exactly when all
\* nine cells are occupied; a second call with no move in between returns
\* the same list, and the board is as it was.
C17_AvailableMoves ==
    unit.op \in {"get_available_moves", "get_available_moves again"} =>
        /\ SeqToSet(unit.result) = EmptyCells(unit.given)
        /\ \A i, j \in 1..Len(unit.result) :
               i < j => Place(unit.result[i]) < Place(unit.result[j])
        /\ (unit.result = <<>>) <=> (unit.given.board[0] \cup unit.given.board[1] = 0..8)
        /\ unit.gs = unit.given
        /\ unit.op = "get_available_moves again" => unit.result = unit.first

\* a second call has returned the same three cells, an occupied cell between
\* them, on a board whose occupancies share a cell
C17_Witness ==
    /\ unit.op = "get_available_moves again"
    /\ unit.result = unit.first
    /\ Len(unit.result) = 3
    /\ Place(unit.result[2]) > Place(unit.result[1]) + 1
    /\ unit.given.board[0] \cap unit.given.board[1] # {}

\* C18: whenever an iteration ends at a node whose board is terminal, be it
\* the child expand has just made (simulate) or a node reached again (the
\* leaf shortcut of expand), the result given to backprop is the player who
\* moved into the node when the board holds a whole line, also when that
\* move filled the last cell, and None exactly when the board is full and
\* holds no line.
C18_TerminalOutcome ==
    [][(/\ last'.op = "select"
        /\ last'.err = "none"
        /\ Terminal(nodes'[last'.start].gamestate)) =>
         last'.result = (IF \/ HasLine(nodes'[last'.start].gamestate.board[0])
                           \/ HasLine(nodes'[last'.start].gamestate.board[1])
                        THEN nodes'[last'.start].gamestate.player
                        ELSE None)]_vars

\* the fields that are the structure of the tree are the same for a node
\* before and after the step
SameStructure(id) ==
    /\ nodes'[id].children = nodes[id].children
    /\ nodes'[id].possible_moves = nodes[id].possible_moves

\* the sequence is the other one with one occurrence of the value taken out
TakenOut(seq, value, other) ==
    \E i \in 1..Len(other) :
        /\ other[i] = value
        /\ seq = SubSeq(other, 1, i - 1) \o SubSeq(other, i + 1, Len(other))

\* C19: a select on the root changes the structure of the tree in one place
\* at most.  Either one node is made: it is the last child of a node whose
\* board is not terminal, the first node of the descent from the root with
\* an untried move, and the move of the child, and nothing else, has left
\* the untried moves of that node.  Or no node is made, the descent has ended
\* at a node whose board is terminal, and no list of children or of untried
\* moves has changed.  A node whose board is terminal has no children.
C19_OneExpansion ==
    [][(last'.op = "select") =>
         /\ last'.err = "none"
         /\ \A id \in 1..Len(nodes) :
                /\ nodes'[id].gamestate = nodes[id].gamestate
                /\ nodes'[id].parent = nodes[id].parent
                /\ nodes'[id].played_move = nodes[id].played_move
         /\ \A id \in 1..Len(nodes') :
                Terminal(nodes'[id].gamestate) => nodes'[id].children = <<>>
         /\ \/ /\ Len(nodes') = Len(nodes)
               /\ Terminal(nodes[last'.start].gamestate)
               /\ root \in Path(nodes, last'.start)
               /\ \A id \in 1..Len(nodes) : SameStructure(id)
            \/ /\ Len(nodes') = Len(nodes) + 1
               /\ last'.start = Len(nodes')
               /\ nodes'[Len(nodes')].children = <<>>
               /\ nodes'[Len(nodes')].played_move = last'.move
               /\ LET at == nodes'[Len(nodes')].parent
                  IN  /\ at \in 1..Len(nodes)
                      /\ ~Terminal(nodes[at].gamestate)
                      /\ root \in Path(nodes, at)
                      /\ \A id \in Path(nodes, at) \ {at} : nodes[id].possible_moves = <<>>
                      /\ nodes'[at].children = Append(nodes[at].children, Len(nodes'))
                      /\ TakenOut(nodes'[at].possible_moves, last'.move, nodes[at].possible_moves)
                      /\ nodes'[Len(nodes')].gamestate = Applied(nodes[at].gamestate, last'.move)
                      /\ \A id \in (1..Len(nodes)) \ {at} : SameStructure(id)]_vars

\* expand has made a child below a child of the root, for an untried move
\* that was not the first of the list
C19_Witness ==
    /\ last.op = "select"
    /\ last.err = "none"
    /\ last.move # NoneMove
    /\ last.start = Len(nodes)
    /\ nodes[last.start].parent # root
    /\ nodes[nodes[last.start].parent].possible_moves # <<>>
    /\ Place(nodes[nodes[last.start].parent].possible_moves[1]) < Place(last.move)

\* C20: when every move given to set_root_to_move is legal and made on a
\* root that is not terminal, no move is applied, to make a node of the tree
\* or in a playout, to a board that holds a whole line, and no board of a
\* node or of a playout holds a whole line of each player.
C20_NoMoveOnWonBoard ==
    [][(BranchBoard' # BranchBoard) =>
         /\ ~HasLine(BranchBoard[0])
         /\ ~HasLine(BranchBoard[1])
         /\ ~(HasLine(BranchBoard'[0]) /\ HasLine(BranchBoard'[1]))]_vars

\* the board of a node of the heap model, in a state given by its unit
BoardOf(u, id) == u.heap[u.nodes[id].gamestate]

\* C21: the expansion of a child, every move of a playout, and
\* set_root_to_move for a move that has no child leave the board, occupancies
\* and player, of every node that was there before as it was; no two nodes
\* have the same GameState object, and the object a playout moves is the
\* object of no node.
C21_NoSharedBoard ==
    [][/\ \A id \in 1..Len(unit.nodes) :
              /\ unit'.nodes[id].gamestate = unit.nodes[id].gamestate
              /\ BoardOf(unit', id) = BoardOf(unit, id)
       /\ \A id, other \in 1..Len(unit'.nodes) :
              unit'.nodes[id].gamestate = unit'.nodes[other].gamestate => id = other
       /\ \A id \in 1..Len(unit'.nodes) : unit'.nodes[id].gamestate # unit'.sim]_vars

\* a playout has moved on from the board of the child it started at, below a
\* root that set_root_to_move has made, next to the nodes of the root before
C21_Witness ==
    /\ unit.op = "simulate"
    /\ unit.root > 1
    /\ unit.nodes[1].children # <<>>
    /\ unit.nodes[unit.root].parent = NoNode
    /\ unit.root \notin SeqToSet(unit.nodes[1].children)
    /\ unit.heap[unit.sim] # BoardOf(unit, Len(unit.nodes))

\* C22: on every board without a whole line that legal play reaches, for
\* every empty cell m the mover plays, the check of the last move
\* (_check_win_move(m) of mcts_lists, _won(m) of mcts_mutable) on the board
\* after the move is is_won() of that board, which is true exactly when the
\* board holds a whole line; the two variants reach the same board, and what
\* move(m) of mcts_mutable returns is is_terminated() of the board of
\* mcts_lists.
C22_LastMoveCheck ==
    [][(/\ unit.op = "Node"
        /\ unit'.op = "Node"
        /\ ~HasLine(unit.node.gamestate.board[0])
        /\ ~HasLine(unit.node.gamestate.board[1])) =>
         LET m == unit'.node.played_move
             of_lists == move_lists(unit.node.gamestate, m)
             of_mutable == move_mutable(unit.node.gamestate, m)
         IN  /\ m \in EmptyCells(unit.node.gamestate)
             /\ unit'.node.gamestate = of_lists
             /\ of_mutable = of_lists
             /\ check_win_move(of_lists, m) = is_won(of_lists)
             /\ is_won(of_lists) = (HasLine(of_lists.board[0]) \/ HasLine(of_lists.board[1]))
             /\ move_mutable_terminal(of_mutable, m) = is_terminated(of_lists)
             /\ unit'.node.is_leaf = Terminal(of_lists)]_vars

\* mcts_mutable has made the node of a move that filled the board and
\* completed a line
C22_Witness ==
    /\ unit.op = "Node"
    /\ variant = "mutable"
    /\ unit.node.is_leaf
    /\ unit.node.played_move # NoneMove
    /\ HasLine(unit.node.gamestate.board[unit.node.gamestate.player])
    /\ EmptyCells(unit.node.gamestate) = {}

\* C23: after any select, choose_best and set_root_to_move, every node but
\* the root has 1 visit at least, and so has the parent of every node:
\* calc_uct, which is called on nodes with a parent only, is never called on
\* a node without visits or below a node without visits; no call fails, no
\* count of visits has become 0.001, and every count of visits is a whole
\* number that is not negative.
C23_VisitsWholeNumbers ==
    /\ last.op \in {"select", "PlayGame.move"} => last.err = "none"
    /\ (last.op = "choose_best" /\ last.err # "none") => nodes[root].children = <<>>
    /\ \A id \in 1..Len(nodes) :
          /\ nodes[id].visits >= 0
          /\ nodes[id].visits % VisitUnit = 0
          /\ nodes[id].parent # NoNode =>
                 /\ nodes[id].visits >= VisitUnit
                 /\ nodes[nodes[id].parent].visits >= VisitUnit

\* mcts_lists has come down from the root by the UCT values of its children
\* and has expanded a child of a child
C23_Witness ==
    /\ variant = "lists"
    /\ last.op = "select"
    /\ last.err = "none"
    /\ Cardinality(Path(nodes, last.start)) >= 3
    /\ \E id \in 1..Len(nodes) : nodes[id].uct > 0

\* C24: after any select and any swap of the root, the root has no parent,
\* every child in the list of children of a node has that node for parent,
\* and every node with a parent is in the children of the parent; so the
\* backprop of an iteration climbs from its node to the root and ends there,
\* and no reference leads from the tree to a root or a sibling a swap has
\* discarded, whose counters it cannot change.
C24_ParentsAndChildren ==
    /\ nodes[root].parent = NoNode
    /\ \A id \in 1..Len(nodes) :
          /\ \A c \in 1..Len(nodes[id].children) : nodes[nodes[id].children[c]].parent = id
          /\ nodes[id].parent # NoNode => id \in SeqToSet(nodes[nodes[id].parent].children)
          /\ nodes[id].parent = NoNode => id = root
    /\ Below(nodes, {root}) = 1..Len(nodes)
    /\ (last.op = "select" /\ last.err = "none") => root \in Path(nodes, last.start)

\* an iteration has ended below a root that a swap has made of a child with
\* visits
C24_Witness ==
    /\ last.op = "select"
    /\ last.err = "none"
    /\ Cardinality(nodes[root].gamestate.board[0] \cup nodes[root].gamestate.board[1]) >= 7
    /\ nodes[root].visits >= 3 * VisitUnit
    /\ Cardinality(Path(nodes, last.start)) >= 2
    /\ Len(nodes) >= 3
====
